---- MODULE Spec2Model ----
(***************************************************************************)
(* A model of the calculator of src/main.py: the restricted expression     *)
(* evaluator (safe_eval), the result formatter (format_result), the        *)
(* notation translators (display_expr, internal_expr) and the handlers of  *)
(* CalculatorApp that own the expression buffer, the last answer and the   *)
(* history.                                                                *)
(*                                                                         *)
(* A Python str is a sequence of one-character strings.  A Python float is *)
(* a record: a finite value is an exact rational n/d in lowest terms, or   *)
(* a decimal expansion (digits and exponent) where more digits are needed  *)
(* than an integer holds; inf, -inf and nan are kinds of their own.  The   *)
(* range of a double is scaled down to FloatMax and 1/FloatMinInv.         *)
(***************************************************************************)
EXTENDS Integers, Sequences, FiniteSets, TLC

VARIABLES
    expression,        \* CalculatorApp.expression (internal notation)
    last_ans,          \* CalculatorApp.last_ans: a float, or None
    history_list,      \* CalculatorApp.history_list: <<display_expr, result_str>> pairs
    sub_display_text,  \* CalculatorApp.sub_display_text
    main_display,      \* text of the main_display label
    sub_display,       \* text of the sub_display label
    history_label,     \* text of the history_label label, one line per element
    called,            \* the handler that ran last and how its evaluation ended
    edits,             \* number of editing operations so far
    arg,               \* argument of the function under test
    ret,               \* what the function under test returned
    pc                 \* "ready" before the call, "done" after it

vars == <<expression, last_ans, history_list, sub_display_text, main_display,
          sub_display, history_label, called, edits, arg, ret, pc>>

appVars == <<expression, last_ans, history_list, sub_display_text, main_display,
             sub_display, history_label, called, edits>>

funVars == <<arg, ret, pc>>

(***************************************************************************)
(* Bounds of the model.                                                    *)
(***************************************************************************)
MaxNotationLen == 4   \* longest display string translated there and back
MaxEvalLen == 5       \* longest expression given to safe_eval
MaxChunks == 3        \* most lexical chunks of an expression with foreign constructs
MaxDigits == 11       \* most significant digits of a formatted value
MaxEdits == 3         \* most editing operations of a session

(***************************************************************************)
(* Python str operations on sequences of characters.                      *)
(***************************************************************************)
None == [kind |-> "None"]

\* All sequences over S of length at most n.
SeqsUpTo(S, n) == UNION {[1..k -> S] : k \in 0..n}

RECURSIVE Flatten(_)
Flatten(chunks) ==
    IF chunks = <<>> THEN <<>> ELSE Head(chunks) \o Flatten(Tail(chunks))

\* s[i:] starts with old.
StartsWithAt(s, i, old) ==
    /\ i + Len(old) - 1 <= Len(s)
    /\ \A k \in 1..Len(old) : s[i + k - 1] = old[k]

\* str.replace(old, new): leftmost non-overlapping occurrences, left to right.
RECURSIVE ReplaceFrom(_, _, _, _)
ReplaceFrom(s, i, old, new) ==
    IF i > Len(s) THEN <<>>
    ELSE IF StartsWithAt(s, i, old)
         THEN new \o ReplaceFrom(s, i + Len(old), old, new)
         ELSE <<s[i]>> \o ReplaceFrom(s, i + 1, old, new)

Replace(s, old, new) == ReplaceFrom(s, 1, old, new)

(***************************************************************************)
(* Notation translators.                                                   *)
(***************************************************************************)
\* mutant: the multiplication sign is substituted before the power operator
display_expr_mul_first(expr) ==
    Replace(Replace(Replace(expr, <<"*">>, <<"×">>), <<"*", "*">>, <<"^">>),
            <<"/">>, <<"÷">>)

display_expr(expr) ==
    Replace(Replace(Replace(expr, <<"*", "*">>, <<"^">>), <<"*">>, <<"×">>),
            <<"/">>, <<"÷">>)

internal_expr(display) ==
    Replace(Replace(Replace(display, <<"×">>, <<"*">>), <<"÷">>, <<"/">>),
            <<"^">>, <<"*", "*">>)

(***************************************************************************)
(* Python float values.  A finite value is n/d in lowest terms with d > 0; *)
(* inf is 1/0, -inf is -1/0 and nan is 0/0.                                *)
(***************************************************************************)
FloatMax == 1000        \* scaled sys.float_info.max: a larger magnitude overflows
FloatMinInv == 1000000  \* scaled 1/sys.float_info.min: a smaller magnitude is 0.0

Abs(x) == IF x < 0 THEN -x ELSE x

Sign(x) == IF x < 0 THEN -1 ELSE IF x > 0 THEN 1 ELSE 0

RECURSIVE Gcd(_, _)
Gcd(a, b) == IF b = 0 THEN a ELSE Gcd(b, a % b)

NaN == [kind |-> "nan", n |-> 0, d |-> 0]

Inf(sign) == [kind |-> "inf", n |-> sign, d |-> 0]

\* n/d in lowest terms (d # 0).
Fin(n, d) ==
    LET g == Gcd(Abs(n), Abs(d))
    IN  [kind |-> "fin", n |-> Sign(d) * (n \div g), d |-> Abs(d) \div g]

Zero == Fin(0, 1)

One == Fin(1, 1)

IsFinite(v) == v.kind = "fin"

\* |n/d| > FloatMax, for d > 0.
TooBig(n, d) ==
    \/ Abs(n) \div d > FloatMax
    \/ Abs(n) \div d = FloatMax /\ Abs(n) % d # 0

\* 0 < |n/d| < 1/FloatMinInv, for d > 0.
TooSmall(n, d) ==
    /\ n # 0
    /\ \/ d \div Abs(n) > FloatMinInv
       \/ d \div Abs(n) = FloatMinInv /\ d % Abs(n) # 0

\* The double nearest to n/d: out of range it is an infinity or 0.0.
ToFloat(n, d) ==
    LET v == Fin(n, d)
    IN  IF TooBig(v.n, v.d) THEN Inf(Sign(v.n))
        ELSE IF TooSmall(v.n, v.d) THEN Zero
        ELSE v

\* Python's ==, <, on floats (nan compares unequal to everything).
FloatEq(a, b) ==
    /\ a.kind # "nan" /\ b.kind # "nan"
    /\ IF a.kind = "inf" \/ b.kind = "inf" THEN a = b
       ELSE a.n * b.d = b.n * a.d

IsZero(v) == v.kind = "fin" /\ v.n = 0

IsNegative(v) == v.kind # "nan" /\ v.n < 0

IsInteger(v) == v.kind = "fin" /\ v.d = 1

IsOddInteger(v) == IsInteger(v) /\ v.n % 2 = 1

\* Results of an operation: a value, or a raised exception, or a value the
\* model does not track (an irrational or a complex number).
Val(v) == [tag |-> "val", v |-> v]

Raise(exc, msg) == [tag |-> "raise", exc |-> exc, msg |-> msg]

Untracked == [tag |-> "untracked"]

FloatNeg(a) == [a EXCEPT !.n = -a.n]

FloatAdd(a, b) ==
    IF a.kind = "nan" \/ b.kind = "nan" THEN NaN
    ELSE IF a.kind = "inf" /\ b.kind = "inf" THEN (IF a.n = b.n THEN a ELSE NaN)
    ELSE IF a.kind = "inf" THEN a
    ELSE IF b.kind = "inf" THEN b
    ELSE ToFloat(a.n * b.d + b.n * a.d, a.d * b.d)

FloatSub(a, b) == FloatAdd(a, FloatNeg(b))

FloatMul(a, b) ==
    IF a.kind = "nan" \/ b.kind = "nan" THEN NaN
    ELSE IF a.kind = "inf" \/ b.kind = "inf"
         THEN (IF a.n = 0 \/ b.n = 0 THEN NaN ELSE Inf(Sign(a.n) * Sign(b.n)))
    ELSE ToFloat(a.n * b.n, a.d * b.d)

\* a / b for b # 0.
FloatDiv(a, b) ==
    IF a.kind = "nan" \/ b.kind = "nan" THEN NaN
    ELSE IF a.kind = "inf"
         THEN (IF b.kind = "inf" THEN NaN ELSE Inf(Sign(a.n) * Sign(b.n)))
    ELSE IF b.kind = "inf" THEN Zero
    ELSE ToFloat(a.n * b.d, a.d * b.n)

\* a % b for b # 0: the result has the sign of the divisor b.
FloatMod(a, b) ==
    IF a.kind = "nan" \/ b.kind = "nan" \/ a.kind = "inf" THEN NaN
    ELSE IF b.kind = "inf"
         THEN (IF a.n = 0 \/ Sign(a.n) = Sign(b.n) THEN a ELSE b)
    ELSE LET num == a.n * b.d * Sign(b.n)
             den == a.d * Abs(b.n)
             q   == (num - (num % den)) \div den      \* floor(a / b)
         IN  FloatSub(a, FloatMul(b, Fin(q, 1)))

\* base ** k for finite base > 0, base # 1 and integer k >= 1, as C's pow():
\* HUGE_VAL on overflow, 0.0 on underflow.
RECURSIVE PowInt(_, _, _)
PowInt(acc, base, k) ==
    IF k = 0 \/ acc.kind = "inf" \/ IsZero(acc) THEN acc
    ELSE PowInt(FloatMul(acc, base), base, k - 1)

\* float_pow of CPython: l ** r.
FloatPow(l, r) ==
    IF IsZero(r) THEN Val(One)
    ELSE IF l.kind = "nan" THEN Val(NaN)
    ELSE IF r.kind = "nan" THEN Val(IF FloatEq(l, One) THEN One ELSE NaN)
    ELSE IF r.kind = "inf" THEN
        LET labs == IF IsNegative(l) THEN FloatNeg(l) ELSE l
            big  == labs.kind = "inf" \/ labs.n > labs.d
        IN  IF FloatEq(labs, One) THEN Val(One)
            ELSE IF (r.n > 0) = big THEN Val(Inf(1))
            ELSE Val(Zero)
    ELSE IF l.kind = "inf" THEN
        IF r.n > 0 THEN Val(IF IsOddInteger(r) THEN l ELSE Inf(1))
        ELSE Val(Zero)
    ELSE IF IsZero(l) THEN
        IF r.n < 0
        THEN Raise("ZeroDivisionError", "0.0 cannot be raised to a negative power")
        ELSE Val(Zero)
    ELSE IF ~IsInteger(r) THEN
        \* a negative base gives a complex number, a positive one an irrational
        IF FloatEq(l, One) THEN Val(One) ELSE Untracked
    ELSE LET negate == IsNegative(l) /\ IsOddInteger(r)
             labs   == IF IsNegative(l) THEN FloatNeg(l) ELSE l
             base   == IF r.n < 0 THEN FloatDiv(One, labs) ELSE labs
             p      == IF base.kind = "inf" THEN base
                       ELSE PowInt(One, base, Abs(r.n))
         IN  IF FloatEq(labs, One) THEN Val(IF negate THEN FloatNeg(One) ELSE One)
             ELSE IF p.kind = "inf"
                  THEN Raise("OverflowError", "Numerical result out of range")
             ELSE Val(IF negate THEN FloatNeg(p) ELSE p)

(***************************************************************************)
(* The tokenizer behind ast.parse, for the characters the calculator can   *)
(* hold: decimal number literals, identifiers, quoted strings, operators.  *)
(***************************************************************************)
Digits == {"0", "1", "2", "3", "4", "5", "6", "7", "8", "9"}

\* the letters the inputs are written with; no literal has a 0x, 0o or 0b prefix
Letters == {"T", "r", "u", "e", "E", "o", "a", "j"}

DigitValue(c) ==
    CASE c = "0" -> 0 [] c = "1" -> 1 [] c = "2" -> 2 [] c = "3" -> 3 [] c = "4" -> 4
      [] c = "5" -> 5 [] c = "6" -> 6 [] c = "7" -> 7 [] c = "8" -> 8 [] c = "9" -> 9

RECURSIVE Pow10(_)
Pow10(k) == IF k = 0 THEN 1 ELSE 10 * Pow10(k - 1)

\* The character at i, or "" past the end.
CharAt(s, i) == IF i >= 1 /\ i <= Len(s) THEN s[i] ELSE ""

\* The first index >= i whose character is not in S.
RECURSIVE SkipWhile(_, _, _)
SkipWhile(s, i, S) ==
    IF CharAt(s, i) \in S THEN SkipWhile(s, i + 1, S) ELSE i

\* The integer written by the digits s[i..j-1] (0 when empty).
RECURSIVE DigitsValue(_, _, _)
DigitsValue(s, i, j) ==
    IF j <= i THEN 0 ELSE 10 * DigitsValue(s, i, j - 1) + DigitValue(s[j - 1])

\* The double written n/d * 10^k.
RECURSIVE TimesPow10(_, _, _)
TimesPow10(n, d, k) ==
    IF k = 0 \/ n = 0 THEN ToFloat(n, d)
    ELSE IF k > 0
         THEN (IF TooBig(n, d) THEN Inf(Sign(n))
               ELSE TimesPow10(Fin(10 * n, d).n, Fin(10 * n, d).d, k - 1))
    ELSE IF TooSmall(n, d) THEN Zero
    ELSE TimesPow10(Fin(n, 10 * d).n, Fin(n, 10 * d).d, k + 1)

Tok(t, txt) == [t |-> t, s |-> txt, v |-> Zero]

NumTok(kind, v) == [t |-> "NUM", s |-> kind, v |-> v]

\* The number literal starting at i (a digit, or a "." before a digit):
\* [ok, tok, next].  An int is s = "int", a float s = "float", an imaginary
\* number s = "imag".
ScanNumber(s, i) ==
    LET intEnd  == SkipWhile(s, i, Digits)
        hasDot  == CharAt(s, intEnd) = "."
        fracEnd == IF hasDot THEN SkipWhile(s, intEnd + 1, Digits) ELSE intEnd
        c1      == CharAt(s, fracEnd)
        c2      == CharAt(s, fracEnd + 1)
        c3      == CharAt(s, fracEnd + 2)
        hasExp  == /\ c1 \in {"e", "E"}
                   /\ \/ c2 \in Digits
                      \/ c2 \in {"+", "-"} /\ c3 \in Digits
        expFrom == IF c2 \in Digits THEN fracEnd + 1 ELSE fracEnd + 2
        expEnd  == IF hasExp THEN SkipWhile(s, expFrom, Digits) ELSE fracEnd
        expo    == IF hasExp THEN DigitsValue(s, expFrom, expEnd) ELSE 0
        expNeg  == hasExp /\ c2 = "-"
        isImag  == CharAt(s, expEnd) \in {"j"}
        numEnd  == IF isImag THEN expEnd + 1 ELSE expEnd
        isInt   == ~hasDot /\ ~hasExp /\ ~isImag
        fracLen == IF hasDot THEN fracEnd - intEnd - 1 ELSE 0
        mant    == DigitsValue(s, i, intEnd) * Pow10(fracLen)
                     + (IF hasDot THEN DigitsValue(s, intEnd + 1, fracEnd) ELSE 0)
        value   == IF isInt THEN Fin(mant, 1)
                   ELSE TimesPow10(mant, 1, (IF expNeg THEN -expo ELSE expo) - fracLen)
        leading == isInt /\ intEnd - i > 1 /\ s[i] = "0"
                     /\ DigitsValue(s, i, intEnd) # 0
    IN  IF CharAt(s, numEnd) \in Letters \/ leading
        THEN [ok |-> FALSE]    \* invalid decimal literal, leading zeros
        ELSE [ok |-> TRUE, next |-> numEnd,
              tok |-> NumTok(IF isInt THEN "int" ELSE IF isImag THEN "imag" ELSE "float",
                             value)]

\* The first index >= i where the closing quotes q start, or 0.
RECURSIVE ClosingQuote(_, _, _)
ClosingQuote(s, i, q) ==
    IF i > Len(s) THEN 0
    ELSE IF StartsWithAt(s, i, q) THEN i
    ELSE ClosingQuote(s, i + 1, q)

Keywords == {<<"T", "r", "u", "e">>}

\* The tokens of s[i:] appended to toks: [ok, toks].
RECURSIVE Tokenize(_, _, _)
Tokenize(s, i, toks) ==
    LET c == CharAt(s, i)
        n == CharAt(s, i + 1)
    IN  IF i > Len(s) THEN [ok |-> TRUE, toks |-> toks]
        ELSE IF c = " " THEN Tokenize(s, i + 1, toks)
        ELSE IF c \in Digits \/ (c = "." /\ n \in Digits) THEN
            LET num == ScanNumber(s, i)
            IN  IF num.ok THEN Tokenize(s, num.next, Append(toks, num.tok))
                ELSE [ok |-> FALSE]
        ELSE IF c \in Letters THEN
            LET j  == SkipWhile(s, i, Letters \cup Digits)
                id == SubSeq(s, i, j - 1)
            IN  Tokenize(s, j, Append(toks,
                    IF id \in Keywords THEN Tok("TRUE", "True") ELSE Tok("NAME", "name")))
        ELSE IF c = "'" THEN
            LET triple == StartsWithAt(s, i, <<"'", "'", "'">>)
                quotes == IF triple THEN <<"'", "'", "'">> ELSE <<"'">>
                q == ClosingQuote(s, i + Len(quotes), quotes)
            IN  IF q = 0 THEN [ok |-> FALSE]    \* unterminated string literal
                ELSE Tokenize(s, q + Len(quotes), Append(toks, Tok("STRING", "str")))
        ELSE IF c = "*" /\ n = "*" THEN Tokenize(s, i + 2, Append(toks, Tok("OP", "**")))
        ELSE IF c = "/" /\ n = "/" THEN Tokenize(s, i + 2, Append(toks, Tok("OP", "//")))
        ELSE IF c = "<" /\ n = "<" THEN Tokenize(s, i + 2, Append(toks, Tok("OP", "<<")))
        ELSE IF c = "." /\ n = "." /\ CharAt(s, i + 2) = "."
             THEN Tokenize(s, i + 3, Append(toks, Tok("OP", "...")))
        ELSE IF c \in {"+", "-", "*", "/", "%", "(", ")", "<", "~", ",", "."}
             THEN Tokenize(s, i + 1, Append(toks, Tok("OP", c)))
        ELSE [ok |-> FALSE]                     \* invalid character

(***************************************************************************)
(* The grammar behind ast.parse(expr, mode="eval"), restricted to the      *)
(* tokens above.  Every parser takes the tokens and the index of the next  *)
(* token and returns [ok, node, next], or [ok |-> FALSE] on a SyntaxError. *)
(***************************************************************************)
Constant(vtype, value) == [type |-> "Constant", vtype |-> vtype, value |-> value]

UnaryOp(op, operand) == [type |-> "UnaryOp", op |-> op, operand |-> operand]

BinOp(op, left, right) == [type |-> "BinOp", op |-> op, left |-> left, right |-> right]

\* A node of another type: eval_node never looks inside it.
Other(type) == [type |-> type]

Fail == [ok |-> FALSE]

Parsed(node, next) == [ok |-> TRUE, node |-> node, next |-> next]

IsOp(toks, i, ops) == i <= Len(toks) /\ toks[i].t = "OP" /\ toks[i].s \in ops

BinOpName(txt) ==
    CASE txt = "+" -> "Add" [] txt = "-" -> "Sub" [] txt = "*" -> "Mult"
      [] txt = "/" -> "Div" [] txt = "%" -> "Mod" [] txt = "**" -> "Pow"
      [] txt = "//" -> "FloorDiv" [] txt = "<<" -> "LShift"

UnaryOpName(txt) ==
    CASE txt = "+" -> "UAdd" [] txt = "-" -> "USub" [] txt = "~" -> "Invert"

RECURSIVE ParseExpressions(_, _), ParseBinary(_, _, _), ParseBinaryRest(_, _, _),
          ParseFactor(_, _), ParsePower(_, _), ParsePrimary(_, _),
          ParsePrimaryRest(_, _), ParseAtom(_, _), ParseStrings(_, _),
          ParseArguments(_, _, _), ParseExpressionsRest(_, _),
          ParseArgumentsRest(_, _, _, _)

\* atom: NAME | 'True' | STRING+ | NUMBER | '...' | group | tuple
ParseAtom(toks, i) ==
    IF i > Len(toks) THEN Fail
    ELSE IF toks[i].t = "NUM" THEN
        Parsed(Constant(IF toks[i].s = "imag" THEN "complex" ELSE toks[i].s, toks[i].v),
               i + 1)
    ELSE IF toks[i].t = "TRUE" THEN Parsed(Constant("bool", One), i + 1)
    ELSE IF toks[i].t = "NAME" THEN Parsed(Other("Name"), i + 1)
    ELSE IF toks[i].t = "STRING" THEN Parsed(Constant("str", Zero), ParseStrings(toks, i))
    ELSE IF IsOp(toks, i, {"..."}) THEN Parsed(Constant("ellipsis", Zero), i + 1)
    ELSE IF IsOp(toks, i, {"("}) THEN
        IF IsOp(toks, i + 1, {")"}) THEN Parsed(Other("Tuple"), i + 2)
        ELSE LET inner == ParseExpressions(toks, i + 1)
             IN  IF inner.ok /\ IsOp(toks, inner.next, {")"})
                 THEN Parsed(inner.node, inner.next + 1)
                 ELSE Fail
    ELSE Fail

\* adjacent string literals are one constant
ParseStrings(toks, i) ==
    IF i <= Len(toks) /\ toks[i].t = "STRING" THEN ParseStrings(toks, i + 1) ELSE i

\* primary: primary '.' NAME | primary '(' [arguments] ')' | atom
ParsePrimary(toks, i) == ParsePrimaryRest(toks, ParseAtom(toks, i))

\* what follows the primary left
ParsePrimaryRest(toks, left) ==
    IF ~left.ok THEN Fail
    ELSE IF IsOp(toks, left.next, {"."}) THEN
        IF left.next + 1 <= Len(toks) /\ toks[left.next + 1].t = "NAME"
        THEN ParsePrimaryRest(toks, Parsed(Other("Attribute"), left.next + 2))
        ELSE Fail
    ELSE IF IsOp(toks, left.next, {"("}) THEN
        IF IsOp(toks, left.next + 1, {")"})
        THEN ParsePrimaryRest(toks, Parsed(Other("Call"), left.next + 2))
        ELSE LET args == ParseArguments(toks, left.next + 1, FALSE)
             IN  IF args.ok /\ IsOp(toks, args.next, {")"})
                 THEN ParsePrimaryRest(toks, Parsed(Other("Call"), args.next + 1))
                 ELSE Fail
    ELSE left

\* mutant: the exponent is a primary, so that it takes no sign and a power
\* is not the exponent of a power
ParsePowerOfPrimary(toks, i) ==
    LET base == ParsePrimary(toks, i)
    IN  IF base.ok /\ IsOp(toks, base.next, {"**"}) THEN
            LET expo == ParsePrimary(toks, base.next + 1)
            IN  IF expo.ok THEN Parsed(BinOp("Pow", base.node, expo.node), expo.next)
                ELSE Fail
        ELSE base

\* power: primary '**' factor | primary
ParsePower(toks, i) ==
    LET base == ParsePrimary(toks, i)
    IN  IF base.ok /\ IsOp(toks, base.next, {"**"}) THEN
            LET expo == ParseFactor(toks, base.next + 1)
            IN  IF expo.ok THEN Parsed(BinOp("Pow", base.node, expo.node), expo.next)
                ELSE Fail
        ELSE base

\* factor: '+' factor | '-' factor | '~' factor | power
ParseFactor(toks, i) ==
    IF IsOp(toks, i, {"+", "-", "~"}) THEN
        LET operand == ParseFactor(toks, i + 1)
        IN  IF operand.ok
            THEN Parsed(UnaryOp(UnaryOpName(toks[i].s), operand.node), operand.next)
            ELSE Fail
    ELSE ParsePower(toks, i)

\* The binary levels of the grammar, loosest first:
\*   comparison: shift_expr ('<' shift_expr)+ | shift_expr
\*   shift_expr: shift_expr '<<' sum | sum
\*   sum:        sum ('+' | '-') term | term
\*   term:       term ('*' | '/' | '//' | '%') factor | factor
Comparison == "comparison"

LevelOps(level) ==
    CASE level = "comparison" -> {"<"}
      [] level = "shift_expr" -> {"<<"}
      [] level = "sum"        -> {"+", "-"}
      [] level = "term"       -> {"*", "/", "//", "%"}

Tighter(level) ==
    CASE level = "comparison" -> "shift_expr"
      [] level = "shift_expr" -> "sum"
      [] level = "sum"        -> "term"

\* left op right
Joined(level, op, left, right) ==
    Parsed(IF level = "comparison" THEN Other("Compare")
           ELSE BinOp(BinOpName(op), left.node, right.node),
           right.next)

\* an expression of the level: operands of the next level, or factors
ParseBinary(toks, i, level) ==
    ParseBinaryRest(toks,
                    IF level = "term" THEN ParseFactor(toks, i)
                    ELSE ParseBinary(toks, i, Tighter(level)),
                    level)

\* the operators of one level group to the left
ParseBinaryRest(toks, left, level) ==
    IF left.ok /\ IsOp(toks, left.next, LevelOps(level)) THEN
        LET right == IF level = "term" THEN ParseFactor(toks, left.next + 1)
                     ELSE ParseBinary(toks, left.next + 1, Tighter(level))
        IN  IF right.ok
            THEN ParseBinaryRest(toks, Joined(level, toks[left.next].s, left, right),
                                 level)
            ELSE Fail
    ELSE left

\* expressions: expression (',' expression)* [',']; with a comma it is a Tuple
ParseExpressions(toks, i) == ParseExpressionsRest(toks, ParseBinary(toks, i, Comparison))

\* what follows the first expression
ParseExpressionsRest(toks, first) ==
    IF first.ok /\ IsOp(toks, first.next, {","}) THEN
        LET more == ParseExpressions(toks, first.next + 1)
        IN  Parsed(Other("Tuple"), IF more.ok THEN more.next ELSE first.next + 1)
    ELSE first

\* arguments: ['*' | '**'] expression (',' ...)* [',']; after a '**' argument
\* only '**' arguments may follow
ParseArguments(toks, i, kw) ==
    ParseArgumentsRest(toks, i, kw,
                       ParseBinary(toks, IF IsOp(toks, i, {"*", "**"}) THEN i + 1 ELSE i,
                                   Comparison))

\* what follows the first argument
ParseArgumentsRest(toks, i, kw, first) ==
    IF ~first.ok \/ (kw /\ ~IsOp(toks, i, {"**"})) THEN Fail
    ELSE IF IsOp(toks, first.next, {","}) THEN
        IF IsOp(toks, first.next + 1, {")"}) THEN Parsed(first.node, first.next + 1)
        ELSE ParseArguments(toks, first.next + 1, IsOp(toks, i, {"**"}))
    ELSE first

\* The tokenizer counts brackets: a ')' without its '(' and a '(' never
\* closed are syntax errors.
RECURSIVE Balanced(_, _, _)
Balanced(toks, i, open) ==
    IF i > Len(toks) THEN open = 0
    ELSE IF IsOp(toks, i, {"("}) THEN Balanced(toks, i + 1, open + 1)
    ELSE IF IsOp(toks, i, {")"}) THEN open > 0 /\ Balanced(toks, i + 1, open - 1)
    ELSE Balanced(toks, i + 1, open)

\* the tree, when it takes every token
Whole(toks, tree) ==
    IF tree.ok /\ tree.next = Len(toks) + 1
    THEN [ok |-> TRUE, body |-> tree.node]
    ELSE [ok |-> FALSE]

ParseTokens(lexed) ==
    IF lexed.ok /\ Balanced(lexed.toks, 1, 0)
    THEN Whole(lexed.toks, ParseExpressions(lexed.toks, 1))
    ELSE [ok |-> FALSE]

\* ast.parse(expr, mode="eval"): [ok, body], or a SyntaxError.
parse(expr) == ParseTokens(Tokenize(expr, 1, <<>>))

(***************************************************************************)
(* safe_eval.                                                              *)
(***************************************************************************)
Str(text) == [kind |-> "str", text |-> text]

IsNone(x) == x.kind = "None"

ALLOWED_BINOPS == {"Add", "Sub", "Mult", "Div", "Mod", "Pow"}

ALLOWED_UNARY == {"USub", "UAdd"}

ReturnsNone == [tag |-> "none"]

\* float(node.value) of an int, bool or float constant
FloatOfConstant(node) ==
    IF node.vtype = "int" /\ TooBig(node.value.n, node.value.d)
    THEN Raise("OverflowError", "int too large to convert to float")
    ELSE Val(node.value)

\* the arithmetic of a BinOp node on two floats
\* mutant: the Div node does not test its right operand
ApplyBinOpUnguarded(op, left, right) ==
    CASE op = "Add"  -> Val(FloatAdd(left, right))
      [] op = "Sub"  -> Val(FloatSub(left, right))
      [] op = "Mult" -> Val(FloatMul(left, right))
      [] op = "Div"  -> IF FloatEq(right, Zero) THEN Val(Inf(1))
                        ELSE Val(FloatDiv(left, right))
      [] op = "Mod"  -> IF FloatEq(right, Zero)
                        THEN Raise("ZeroDivisionError", "Modulo by zero")
                        ELSE Val(FloatMod(left, right))
      [] op = "Pow"  -> FloatPow(left, right)

ApplyBinOp(op, left, right) ==
    CASE op = "Add"  -> Val(FloatAdd(left, right))
      [] op = "Sub"  -> Val(FloatSub(left, right))
      [] op = "Mult" -> Val(FloatMul(left, right))
      [] op = "Div"  -> IF FloatEq(right, Zero)
                        THEN Raise("ZeroDivisionError", "Division by zero")
                        ELSE Val(FloatDiv(left, right))
      [] op = "Mod"  -> IF FloatEq(right, Zero)
                        THEN Raise("ZeroDivisionError", "Modulo by zero")
                        ELSE Val(FloatMod(left, right))
      [] op = "Pow"  -> FloatPow(left, right)

RECURSIVE eval_node(_)
eval_node(node) ==
    IF node.type = "Constant" THEN
        IF node.vtype \in {"int", "float", "bool"} THEN FloatOfConstant(node)
        ELSE ReturnsNone
    ELSE IF node.type = "UnaryOp" THEN
        IF node.op \notin ALLOWED_UNARY
        THEN Raise("ValueError", "Unsupported unary operator")
        ELSE LET val == eval_node(node.operand)
             IN  IF val.tag # "val" THEN val
                 ELSE IF node.op = "USub" THEN Val(FloatNeg(val.v)) ELSE val
    ELSE IF node.type = "BinOp" THEN
        IF node.op \notin ALLOWED_BINOPS
        THEN Raise("ValueError", "Unsupported operator")
        ELSE LET left == eval_node(node.left)
             IN  IF left.tag = "raise" THEN left
                 ELSE LET right == eval_node(node.right)
                      IN  IF right.tag = "raise" THEN right
                          ELSE IF left.tag = "none" \/ right.tag = "none"
                               THEN ReturnsNone
                          ELSE IF left.tag = "untracked" \/ right.tag = "untracked"
                               THEN Untracked
                          ELSE ApplyBinOp(node.op, left.v, right.v)
    ELSE Raise("ValueError", "Unsupported expression node")

Whitespace == {" "}

\* str.strip()
Strip(s) ==
    LET first == SkipWhile(s, 1, Whitespace)
        last  == CHOOSE j \in 0..Len(s) :
                    /\ \A k \in (j + 1)..Len(s) : s[k] \in Whitespace
                    /\ j = 0 \/ s[j] \notin Whitespace
    IN  IF first > last THEN <<>> ELSE SubSeq(s, first, last)

\* What a call returns: the pair (value, err), or the exception that leaves it.
Return(value, err) == [tag |-> "return", value |-> value, err |-> err]

\* safe_eval's try block around eval_node(tree.body)
Guarded(result) ==
    IF result.tag = "none" THEN Return(None, Str("Invalid expression"))
    ELSE IF result.tag = "val" THEN Return(result.v, None)
    ELSE IF result.tag = "raise"
              /\ result.exc \in {"ZeroDivisionError", "ValueError", "TypeError"}
         THEN Return(None, Str(result.msg))
    ELSE result

\* expr.strip().replace("^", "**")
Prepared(text) == Replace(Strip(text), <<"^">>, <<"*", "*">>)

\* safe_eval after ast.parse
EvalTree(tree) ==
    IF ~tree.ok THEN Return(None, Str("Invalid expression: SyntaxError"))
    ELSE Guarded(eval_node(tree.body))

EvalPrepared(expr) ==
    IF expr = <<>> THEN Return(None, Str("Empty expression"))
    ELSE EvalTree(parse(expr))

safe_eval(text) == EvalPrepared(Prepared(text))

(***************************************************************************)
(* Decimal expansions.  [kind |-> "dec"] is the finite float               *)
(* (-1)^neg * d1.d2d3... * 10^exp, digs = <<d1, d2, ...>> with d1 # 0 and  *)
(* no trailing zero; 0.0 has no digits.  The arithmetic of safe_eval works *)
(* on rationals; formatting and float() work on the digits.                *)
(***************************************************************************)
RECURSIVE StripLeadingZeros(_), StripTrailingZeros(_)
StripLeadingZeros(digs) ==
    IF digs # <<>> /\ Head(digs) = 0 THEN StripLeadingZeros(Tail(digs)) ELSE digs

StripTrailingZeros(digs) ==
    IF digs # <<>> /\ digs[Len(digs)] = 0
    THEN StripTrailingZeros(SubSeq(digs, 1, Len(digs) - 1))
    ELSE digs

\* The float d1.d2... * 10^exp for any digits d1, d2, ...
Dec(neg, digs, exp) ==
    LET lead == StripLeadingZeros(digs)
        sig  == StripTrailingZeros(lead)
    IN  IF sig = <<>> THEN [kind |-> "dec", neg |-> FALSE, digs |-> <<>>, exp |-> 0]
        ELSE [kind |-> "dec", neg |-> neg, digs |-> sig,
              exp |-> exp - (Len(digs) - Len(lead))]

\* The decimal digits of k >= 0 (none for 0).
RECURSIVE IntDigits(_)
IntDigits(k) == IF k = 0 THEN <<>> ELSE Append(IntDigits(k \div 10), k % 10)

\* The digits of rem/d after the point, until `left` significant digits are
\* out; a last 1 stands for a non-zero rest.
RECURSIVE FracDigits(_, _, _, _)
FracDigits(rem, d, left, started) ==
    IF rem = 0 THEN <<>>
    ELSE IF left <= 0 THEN <<1>>
    ELSE LET digit == (10 * rem) \div d
             sig   == started \/ digit # 0
         IN  <<digit>> \o FracDigits((10 * rem) % d, d, IF sig THEN left - 1 ELSE left, sig)

GuardDigits == 12   \* significant digits kept of a rational: more than format_result prints

\* The decimal expansion of a finite float.
Decimal(v) ==
    IF v.kind = "dec" THEN v
    ELSE LET int  == IntDigits(Abs(v.n) \div v.d)
             frac == FracDigits(Abs(v.n) % v.d, v.d, GuardDigits - Len(int), int # <<>>)
         IN  Dec(v.n < 0, <<0>> \o int \o frac, Len(int))

\* The rational a finite float is, for the arithmetic of safe_eval.
RECURSIVE DigitsToInt(_)
DigitsToInt(digs) ==
    IF digs = <<>> THEN 0 ELSE 10 * DigitsToInt(SubSeq(digs, 1, Len(digs) - 1)) + digs[Len(digs)]

Rational(v) ==
    IF v.kind # "dec" THEN v
    ELSE TimesPow10((IF v.neg THEN -1 ELSE 1) * DigitsToInt(v.digs), 1,
                    v.exp - (Len(v.digs) - 1))

\* digs + 1 in the last place; a carry out of the first place makes it longer.
RECURSIVE Increment(_)
Increment(digs) ==
    IF digs = <<>> THEN <<1>>
    ELSE IF digs[Len(digs)] < 9 THEN [digs EXCEPT ![Len(digs)] = @ + 1]
    ELSE Append(Increment(SubSeq(digs, 1, Len(digs) - 1)), 0)

\* x rounded to p significant digits, ties to even.
RoundSig(x, p) ==
    IF Len(x.digs) <= p THEN x
    ELSE LET keep == SubSeq(x.digs, 1, p)
             next == x.digs[p + 1]
             more == \E k \in (p + 2)..Len(x.digs) : x.digs[k] # 0
             up   == next > 5 \/ (next = 5 /\ (more \/ keep[p] % 2 = 1))
             inc  == Increment(keep)
         IN  IF ~up THEN Dec(x.neg, keep, x.exp)
             ELSE IF Len(inc) > p THEN Dec(x.neg, inc, x.exp + 1)
             ELSE Dec(x.neg, inc, x.exp)

DigitChar(dgt) ==
    CASE dgt = 0 -> "0" [] dgt = 1 -> "1" [] dgt = 2 -> "2" [] dgt = 3 -> "3"
      [] dgt = 4 -> "4" [] dgt = 5 -> "5" [] dgt = 6 -> "6" [] dgt = 7 -> "7"
      [] dgt = 8 -> "8" [] dgt = 9 -> "9"

DigitChars(digs) == [k \in 1..Len(digs) |-> DigitChar(digs[k])]

Zeros(k) == [j \in 1..k |-> "0"]

Minus(neg) == IF neg THEN <<"-">> ELSE <<>>

\* x == int(x)
IsWhole(x) == Len(x.digs) <= x.exp + 1

\* str(int(x)) for a whole x
IntStr(x) ==
    IF x.digs = <<>> THEN <<"0">>
    ELSE Minus(x.neg) \o DigitChars(x.digs) \o Zeros(x.exp + 1 - Len(x.digs))

Precision == 10

\* f"{x:.{p}g}": p significant digits, trailing zeros removed, exponent
\* notation when the exponent is below -4 or at least p.
FormatG(x, p) ==
    LET r    == RoundSig(x, p)
        digs == DigitChars(r.digs)
        n    == Len(digs)
        e    == IntDigits(Abs(r.exp))
    IN  IF r.digs = <<>> THEN <<"0">>
        ELSE IF r.exp < -4 \/ r.exp >= p THEN
            Minus(r.neg) \o <<digs[1]>>
              \o (IF n > 1 THEN <<".">> \o SubSeq(digs, 2, n) ELSE <<>>)
              \o <<"e", IF r.exp < 0 THEN "-" ELSE "+">>
              \o (IF Len(e) < 2 THEN Zeros(2 - Len(e)) ELSE <<>>) \o DigitChars(e)
        ELSE IF r.exp < 0 THEN
            Minus(r.neg) \o <<"0", ".">> \o Zeros(-r.exp - 1) \o digs
        ELSE IF n <= r.exp + 1 THEN
            Minus(r.neg) \o digs \o Zeros(r.exp + 1 - n)
        ELSE Minus(r.neg) \o SubSeq(digs, 1, r.exp + 1) \o <<".">>
               \o SubSeq(digs, r.exp + 2, n)

\* str.rstrip(chars)
RECURSIVE RStrip(_, _)
RStrip(s, chars) ==
    IF s # <<>> /\ s[Len(s)] \in chars THEN RStrip(SubSeq(s, 1, Len(s) - 1), chars)
    ELSE s

ErrorText == <<"E", "r", "r", "o", "r">>

\* mutant: the result is not trimmed
format_result_untrimmed(value) ==
    IF value.kind = "nan" THEN ErrorText
    ELSE IF value.kind = "inf" THEN ErrorText
    ELSE FormatG(Decimal(value), Precision)

format_result(value) ==
    IF value.kind = "nan" THEN ErrorText
    ELSE IF value.kind = "inf" THEN ErrorText
    ELSE LET x == Decimal(value)
             s == FormatG(x, Precision)
             t == RStrip(RStrip(s, {"0"}), {"."})
         IN  IF IsWhole(x) THEN IntStr(x)
             ELSE IF \E k \in 1..Len(s) : s[k] \in {"e", "E"} THEN s
             ELSE IF t # <<>> THEN t ELSE <<"0">>

\* float(s) of a decimal string: [ok, value], or a ValueError.
PyFloat(text) ==
    LET s       == Strip(text)
        neg     == CharAt(s, 1) = "-"
        i       == IF CharAt(s, 1) \in {"+", "-"} THEN 2 ELSE 1
        intEnd  == SkipWhile(s, i, Digits)
        hasDot  == CharAt(s, intEnd) = "."
        fracEnd == IF hasDot THEN SkipWhile(s, intEnd + 1, Digits) ELSE intEnd
        c1      == CharAt(s, fracEnd)
        c2      == CharAt(s, fracEnd + 1)
        hasExp  == c1 \in {"e", "E"}
        expFrom == IF c2 \in {"+", "-"} THEN fracEnd + 2 ELSE fracEnd + 1
        expEnd  == IF hasExp THEN SkipWhile(s, expFrom, Digits) ELSE fracEnd
        expo    == IF hasExp THEN DigitsValue(s, expFrom, expEnd) ELSE 0
        digs    == [k \in 1..(intEnd - i) |-> DigitValue(s[i + k - 1])]
                     \o (IF hasDot
                         THEN [k \in 1..(fracEnd - intEnd - 1) |-> DigitValue(s[intEnd + k])]
                         ELSE <<>>)
    IN  IF \/ digs = <<>>
           \/ hasExp /\ expEnd = expFrom
           \/ expEnd # Len(s) + 1
        THEN [ok |-> FALSE]
        ELSE [ok |-> TRUE,
              value |-> Dec(neg, <<0>> \o digs,
                            (intEnd - i) + (IF c2 = "-" THEN -expo ELSE expo))]

(***************************************************************************)
(* CalculatorApp.  A handler is an operator from the fields of self before *)
(* the call to the fields after it.                                        *)
(***************************************************************************)
Self == [expression |-> expression, last_ans |-> last_ans,
         history_list |-> history_list, sub_display_text |-> sub_display_text,
         main_display |-> main_display, sub_display |-> sub_display,
         history_label |-> history_label]

HistoryLength == 6

EmDash == "EM DASH"   \* the character U+2014

\* _update_history_display: the lines of the history label
_update_history_display(self) ==
    [self EXCEPT !.history_label =
        IF self.history_list = <<>> THEN <<<<EmDash>>>>
        ELSE [k \in 1..Len(self.history_list) |->
                 self.history_list[k][1] \o <<" ", "=", " ">> \o self.history_list[k][2]]]

\* __init__
NewApp ==
    _update_history_display(
        [expression |-> <<>>, last_ans |-> None, history_list |-> <<>>,
         sub_display_text |-> <<>>, main_display |-> <<"0">>, sub_display |-> <<>>,
         history_label |-> <<>>])

_refresh_display(self) ==
    [self EXCEPT !.main_display = IF self.expression # <<>>
                                  THEN display_expr(self.expression) ELSE <<"0">>,
                 !.sub_display = self.sub_display_text]

_append(self, char) ==
    [self EXCEPT !.expression = self.expression \o internal_expr(char),
                 !.sub_display_text = <<>>]

\* mutant: C also forgets the last answer
_clear_all(self) ==
    [self EXCEPT !.expression = <<>>, !.sub_display_text = <<>>, !.last_ans = None]

_clear(self) ==
    [self EXCEPT !.expression = <<>>, !.sub_display_text = <<>>]

_backspace(self) ==
    [self EXCEPT !.expression = SubSeq(self.expression, 1, Len(self.expression) - 1),
                 !.sub_display_text = <<>>]

_insert_ans(self) ==
    [self EXCEPT !.expression = IF IsNone(self.last_ans) THEN self.expression
                                ELSE self.expression \o format_result(self.last_ans),
                 !.sub_display_text = <<>>]

\* re: (?:^|[\+\-\*\/\%\(])\s*(-?\d+\.?\d*)\s*$ tried at position p of s.  The
\* span of group 1 is <<from, to>> (to exclusive), <<0, 0>> when there is no match.
NumberToEnd(s, i) ==
    LET from   == SkipWhile(s, i, Whitespace)
        digits == IF CharAt(s, from) = "-" THEN from + 1 ELSE from
        intEnd == SkipWhile(s, digits, Digits)
        dotEnd == IF CharAt(s, intEnd) = "." THEN intEnd + 1 ELSE intEnd
        to     == SkipWhile(s, dotEnd, Digits)
    IN  IF intEnd > digits /\ SkipWhile(s, to, Whitespace) = Len(s) + 1
        THEN <<from, to>> ELSE <<0, 0>>

RegexOperators == {"+", "-", "*", "/", "%", "("}

MatchAt(s, p) ==
    IF p = 1 /\ NumberToEnd(s, 1) # <<0, 0>> THEN NumberToEnd(s, 1)
    ELSE IF CharAt(s, p) \in RegexOperators THEN NumberToEnd(s, p + 1)
    ELSE <<0, 0>>

\* re.finditer(...): the match that starts leftmost; it ends the string, so
\* it is the only one
LastNumber(s) ==
    IF \E p \in 1..Len(s) : MatchAt(s, p) # <<0, 0>>
    THEN MatchAt(s, CHOOSE p \in 1..Len(s) :
                        /\ MatchAt(s, p) # <<0, 0>>
                        /\ \A q \in 1..(p - 1) : MatchAt(s, q) = <<0, 0>>)
    ELSE <<0, 0>>

\* re.match(r"^(-?\d+\.?\d*)\s*$", s)
WholeNumber(s) ==
    LET m == NumberToEnd(s, 1) IN IF m[1] = 1 THEN m ELSE <<0, 0>>

Splice(s, span, new) ==
    SubSeq(s, 1, span[1] - 1) \o new \o SubSeq(s, span[2], Len(s))

_toggle_sign(self) ==
    LET expr == self.expression
        m    == LastNumber(expr)
        m2   == WholeNumber(expr)
        num  == SubSeq(expr, m[1], m[2] - 1)
        num2 == SubSeq(expr, m2[1], m2[2] - 1)
    IN  IF expr = <<>> THEN self
        ELSE IF m = <<0, 0>> THEN
            IF m2 # <<0, 0>>
            THEN [self EXCEPT !.expression =
                     (IF Head(num2) = "-" THEN <<>> ELSE <<"-">>)
                       \o (IF Head(num2) = "-" THEN Tail(num2) ELSE num2)]
            ELSE self
        ELSE [self EXCEPT !.expression =
                  Splice(expr, m, IF Head(num) = "-" THEN Tail(num) ELSE <<"-">> \o num),
                          !.sub_display_text = <<>>]

\* format_result(float(text) / 100)
Hundredth(text) ==
    format_result(FloatDiv(Rational(PyFloat(text).value), Fin(100, 1)))

_percent(self) ==
    LET expr == self.expression
        m    == LastNumber(expr)
        m2   == WholeNumber(expr)
    IN  IF expr = <<>> THEN self
        ELSE IF m = <<0, 0>> THEN
            IF m2 # <<0, 0>>
            THEN [self EXCEPT !.expression = Hundredth(SubSeq(expr, m2[1], m2[2] - 1))]
            ELSE self
        ELSE [self EXCEPT !.expression =
                  Splice(expr, m, Hundredth(SubSeq(expr, m[1], m[2] - 1))),
                          !.sub_display_text = <<>>]

\* How _evaluate ends on self when safe_eval gives r: "blank", "error", "ok",
\* or "raise" when an exception leaves safe_eval ("untracked": a value outside
\* the model).
Outcome(self, r) ==
    IF Strip(self.expression) = <<>> THEN "blank"
    ELSE IF r.tag # "return" THEN r.tag
    ELSE IF ~IsNone(r.err) THEN "error"
    ELSE "ok"

EvaluateOutcome(self) == Outcome(self, safe_eval(internal_expr(self.expression)))

\* mutant: a rejected expression is cleared
RejectedClearing(self, message) ==
    [self EXCEPT !.sub_display_text = <<"Error: ", message>>,
                 !.main_display = ErrorText,
                 !.sub_display = <<"Error: ", message>>,
                 !.expression = <<>>]

\* the branch err is not None
Rejected(self, message) ==
    [self EXCEPT !.sub_display_text = <<"Error: ", message>>,
                 !.main_display = ErrorText,
                 !.sub_display = <<"Error: ", message>>]

\* mutant: the history keeps every entry
AcceptedUnbounded(self, internal, result, result_str) ==
    _update_history_display(
        [self EXCEPT !.last_ans = result,
                     !.history_list = <<<<display_expr(self.expression), result_str>>>>
                                         \o self.history_list,
                     !.expression = result_str,
                     !.sub_display_text = display_expr(internal) \o <<" ", "=">>,
                     !.main_display = result_str,
                     !.sub_display = display_expr(internal) \o <<" ", "=">>])

\* the successful branch
Accepted(self, internal, result, result_str) ==
    _update_history_display(
        [self EXCEPT !.last_ans = result,
                     !.history_list =
                         SubSeq(<<<<display_expr(self.expression), result_str>>>>
                                  \o self.history_list,
                                1, IF Len(self.history_list) < HistoryLength
                                   THEN Len(self.history_list) + 1
                                   ELSE HistoryLength),
                     !.expression = result_str,
                     !.sub_display_text = display_expr(internal) \o <<" ", "=">>,
                     !.main_display = result_str,
                     !.sub_display = display_expr(internal) \o <<" ", "=">>])

Blank(self) == [self EXCEPT !.main_display = <<"0">>, !.sub_display = <<>>]

EvaluateClearing(self, internal, r) ==
    IF Outcome(self, r) = "blank" THEN Blank(self)
    ELSE IF Outcome(self, r) = "error" THEN RejectedClearing(self, r.err.text)
    ELSE IF Outcome(self, r) = "ok"
    THEN Accepted(self, internal, r.value, format_result(r.value))
    ELSE self

EvaluateUnbounded(self, internal, r) ==
    IF Outcome(self, r) = "blank" THEN Blank(self)
    ELSE IF Outcome(self, r) = "error" THEN Rejected(self, r.err.text)
    ELSE IF Outcome(self, r) = "ok"
    THEN AcceptedUnbounded(self, internal, r.value, format_result(r.value))
    ELSE self

\* _evaluate with internal and the pair r of safe_eval; an exception out of
\* safe_eval leaves every field as it was
Evaluate(self, internal, r) ==
    IF Outcome(self, r) = "blank" THEN Blank(self)
    ELSE IF Outcome(self, r) = "error" THEN Rejected(self, r.err.text)
    ELSE IF Outcome(self, r) = "ok"
    THEN Accepted(self, internal, r.value, format_result(r.value))
    ELSE self

_evaluate_clearing(self) ==
    EvaluateClearing(self, internal_expr(self.expression),
                     safe_eval(internal_expr(self.expression)))

_evaluate_unbounded(self) ==
    EvaluateUnbounded(self, internal_expr(self.expression),
                      safe_eval(internal_expr(self.expression)))

_evaluate(self) ==
    Evaluate(self, internal_expr(self.expression),
             safe_eval(internal_expr(self.expression)))

(***************************************************************************)
(* The calculator session: the buttons and keys of CalculatorApp.          *)
(***************************************************************************)
\* what a button or a key appends: "" is a key without a character
Keys == {<<"2">>, <<"0">>, <<"×">>, <<"-">>, <<>>}

Called(op, outcome, full) == [op |-> op, outcome |-> outcome, full |-> full]

Set(self, op, outcome) ==
    /\ expression' = self.expression
    /\ last_ans' = self.last_ans
    /\ history_list' = self.history_list
    /\ sub_display_text' = self.sub_display_text
    /\ main_display' = self.main_display
    /\ sub_display' = self.sub_display
    /\ history_label' = self.history_label
    /\ called' = Called(op, outcome, Len(history_list) = HistoryLength)
    /\ UNCHANGED funVars

Edit == edits < MaxEdits /\ edits' = edits + 1

InitApp ==
    /\ expression = NewApp.expression
    /\ last_ans = NewApp.last_ans
    /\ history_list = NewApp.history_list
    /\ sub_display_text = NewApp.sub_display_text
    /\ main_display = NewApp.main_display
    /\ sub_display = NewApp.sub_display
    /\ history_label = NewApp.history_label
    /\ called = Called("__init__", "none", FALSE)
    /\ edits = 0

InitFun == arg = <<>> /\ ret = <<>> /\ pc = "idle"

Init == InitApp /\ InitFun

\* a character button, or a key with that character
PressChar(key) == Edit /\ Set(_refresh_display(_append(Self, key)), "_append", "none")

\* button C, or key Escape
PressClear == Edit /\ Set(_refresh_display(_clear(Self)), "_clear", "none")

\* button backspace, or key BackSpace
PressBackspace == Edit /\ Set(_refresh_display(_backspace(Self)), "_backspace", "none")

PressAns == Edit /\ Set(_refresh_display(_insert_ans(Self)), "_insert_ans", "none")

PressToggleSign == Edit /\ Set(_refresh_display(_toggle_sign(Self)), "_toggle_sign", "none")

PressPercent == Edit /\ Set(_refresh_display(_percent(Self)), "_percent", "none")

\* an evaluation that ends with outcome and the fields after
Equals(outcome, after) ==
    /\ outcome # "untracked"
    /\ Set(after, "_evaluate", outcome)
    /\ UNCHANGED edits

\* button =: _on_button refreshes the display unless _evaluate raised
PressEquals ==
    Equals(EvaluateOutcome(Self),
           IF EvaluateOutcome(Self) = "raise" THEN Self
           ELSE _refresh_display(_evaluate(Self)))

\* key Return or KP_Enter: no refresh
KeyReturn == Equals(EvaluateOutcome(Self), _evaluate(Self))

Next ==
    \/ \E key \in Keys : PressChar(key)
    \/ PressClear
    \/ PressBackspace
    \/ PressAns
    \/ PressToggleSign
    \/ PressPercent
    \/ PressEquals
    \/ KeyReturn

Spec == Init /\ [][Next]_vars

(***************************************************************************)
(* The pure functions, each applied once to an argument of a bounded set.  *)
(***************************************************************************)
DisplayChars == {"0", "9", ".", "+", "-", "×", "÷", "^", "(", ")"}

InitNotation ==
    /\ InitApp
    /\ \E n \in 0..MaxNotationLen : arg \in [1..n -> DisplayChars]
    /\ ret = <<>>
    /\ pc = "ready"

\* display_expr(internal_expr(arg))
RoundTrip ==
    /\ pc = "ready"
    /\ ret' = display_expr(internal_expr(arg))
    /\ pc' = "done"
    /\ UNCHANGED <<arg, appVars>>

SpecNotation == InitNotation /\ [][RoundTrip]_vars

EvalChars == {"0", "2", "+", "-", "*", "/", "%", "^", "(", ")"}

\* the longest expressions are chains of operators without parentheses
ChainChars == EvalChars \ {"(", ")"}

InitEval ==
    /\ InitApp
    /\ \/ \E n \in 0..(MaxEvalLen - 1) : arg \in [1..n -> EvalChars]
       \/ arg \in [1..MaxEvalLen -> ChainChars]
    /\ ret = <<>>
    /\ pc = "ready"

\* safe_eval(arg)
CallSafeEval ==
    /\ pc = "ready"
    /\ ret' = safe_eval(arg)
    /\ pc' = "done"
    /\ UNCHANGED <<arg, appVars>>

SpecEval == InitEval /\ [][CallSafeEval]_vars

\* the lexical chunks of expressions with constructs outside the whitelist
Chunks == {<<"2">>, <<".">>, <<"+">>, <<"-">>, <<"(">>, <<")">>, <<" ">>,
           <<"T", "r", "u", "e">>, <<"a">>, <<"j">>, <<"<">>, <<"~">>, <<"'">>,
           <<",">>}

InitWhitelist ==
    /\ InitApp
    /\ arg \in {Flatten(c) : c \in SeqsUpTo(Chunks, MaxChunks)}
    /\ ret = <<>>
    /\ pc = "ready"

SpecWhitelist == InitWhitelist /\ [][CallSafeEval]_vars

FormatDigits == {1, 9}

FormatExponents == -6..12

InitFormat ==
    /\ InitApp
    /\ arg \in {Dec(neg, digs, exp) : neg \in BOOLEAN,
                    digs \in SeqsUpTo(FormatDigits, MaxDigits) \ {<<>>},
                    exp \in FormatExponents}
    /\ ret = <<>>
    /\ pc = "ready"

\* format_result(arg), and format_result of that string read back by float()
FormatTwice ==
    /\ pc = "ready"
    /\ ret' = <<format_result(arg), format_result(PyFloat(format_result(arg)).value)>>
    /\ pc' = "done"
    /\ UNCHANGED <<arg, appVars>>

SpecFormat == InitFormat /\ [][FormatTwice]_vars

(***************************************************************************)
(* Properties of safe_eval.                                                *)
(***************************************************************************)
\* the tree safe_eval walks for the text
Tree(text) == parse(Prepared(text))

\* every node is a plain real-number literal, a unary + or -, or one of the
\* six binary operators
RECURSIVE Whitelisted(_)
Whitelisted(node) ==
    IF node.type = "Constant" THEN node.vtype \in {"int", "float"}
    ELSE IF node.type = "UnaryOp"
    THEN node.op \in {"UAdd", "USub"} /\ Whitelisted(node.operand)
    ELSE IF node.type = "BinOp"
    THEN /\ node.op \in {"Add", "Sub", "Mult", "Div", "Mod", "Pow"}
         /\ Whitelisted(node.left)
         /\ Whitelisted(node.right)
    ELSE FALSE

WellFormed(text) == Tree(text).ok /\ Whitelisted(Tree(text).body)

\* What first stops the evaluation of a whitelisted tree, operands left to
\* right: "Constant" a literal with no float, "Div" or "Mod" a division or
\* modulo node whose right operand is zero, "Other" a node of another
\* operator; "none" when every operand of the root has a value and the root
\* divides by no zero.
RECURSIVE FirstFault(_)
FirstFault(node) ==
    IF node.type = "Constant"
    THEN IF eval_node(node).tag = "val" THEN "none" ELSE "Constant"
    ELSE IF node.type = "UnaryOp" THEN FirstFault(node.operand)
    ELSE IF FirstFault(node.left) # "none" THEN FirstFault(node.left)
    ELSE IF eval_node(node.left).tag # "val" THEN "Other"
    ELSE IF FirstFault(node.right) # "none" THEN FirstFault(node.right)
    ELSE IF eval_node(node.right).tag # "val" THEN "Other"
    ELSE IF node.op \in {"Div", "Mod"} /\ FloatEq(eval_node(node.right).v, Zero)
    THEN node.op
    ELSE "none"

\* C1: safe_eval always returns a pair, (value, None) or (None, message), and
\* no exception leaves it.
C1_AlwaysReturnsPair ==
    pc = "done" =>
        /\ ret.tag # "raise"
        /\ ret.tag = "return" => IsNone(ret.value) # IsNone(ret.err)

\* C2: when a Div node of a well-formed expression finds its right operand
\* zero, safe_eval returns (None, "Division by zero"), and when a Mod node
\* does, (None, "Modulo by zero"): never a number.
C2_ZeroDivisorIsReported ==
    pc = "done" /\ WellFormed(arg) =>
        /\ FirstFault(Tree(arg).body) = "Div"
              => ret = Return(None, Str("Division by zero"))
        /\ FirstFault(Tree(arg).body) = "Mod"
              => ret = Return(None, Str("Modulo by zero"))

\* a division whose zero right operand is computed, not written
C2_ComputedZeroDivisor ==
    /\ pc = "done"
    /\ WellFormed(arg)
    /\ Tree(arg).body.type = "BinOp"
    /\ Tree(arg).body.op = "Div"
    /\ Tree(arg).body.right.type = "BinOp"
    /\ FirstFault(Tree(arg).body) = "Div"
    /\ ret = Return(None, Str("Division by zero"))

\* C3: safe_eval returns a number only for a tree whose every node is a plain
\* real-number literal, a unary + or -, or one of the six binary operators.
C3_NumberOnlyFromWhitelist ==
    pc = "done" /\ ret.tag = "return" /\ IsNone(ret.err) => WellFormed(arg)

\* Operator-precedence grouping of the tokens from position i: a prefix, then
\* every binary operator binding at least as tightly as min.  A sign takes as
\* its operand what binds at least as tightly as sign.
BindsLeft(op) ==
    CASE op \in {"+", "-"} -> 1 [] op \in {"*", "/", "%"} -> 3 [] op = "**" -> 8

\* + - * / % group to the left, ** to the right
BindsRight(op) ==
    CASE op \in {"+", "-"} -> 2 [] op \in {"*", "/", "%"} -> 4 [] op = "**" -> 7

RECURSIVE Group(_, _, _, _), GroupRest(_, _, _, _, _)
Group(toks, i, min, sign) ==
    IF i > Len(toks) THEN Fail
    ELSE IF toks[i].t = "NUM" /\ toks[i].s \in {"int", "float"}
    THEN GroupRest(toks, Constant(toks[i].s, toks[i].v), i + 1, min, sign)
    ELSE IF IsOp(toks, i, {"("}) THEN
        LET inner == Group(toks, i + 1, 0, sign)
        IN  IF inner.ok /\ IsOp(toks, inner.next, {")"})
            THEN GroupRest(toks, inner.node, inner.next + 1, min, sign)
            ELSE Fail
    ELSE IF IsOp(toks, i, {"+", "-"}) THEN
        LET operand == Group(toks, i + 1, sign, sign)
        IN  IF operand.ok
            THEN GroupRest(toks,
                           UnaryOp(IF toks[i].s = "-" THEN "USub" ELSE "UAdd",
                                   operand.node),
                           operand.next, min, sign)
            ELSE Fail
    ELSE Fail

GroupRest(toks, left, i, min, sign) ==
    IF IsOp(toks, i, {"+", "-", "*", "/", "%", "**"}) /\ BindsLeft(toks[i].s) >= min
    THEN LET right == Group(toks, i + 1, BindsRight(toks[i].s), sign)
         IN  IF right.ok
             THEN GroupRest(toks, BinOp(BinOpName(toks[i].s), left, right.node),
                            right.next, min, sign)
             ELSE Fail
    ELSE Parsed(left, i)

Grouped(text, sign) ==
    LET lexed == Tokenize(Prepared(text), 1, <<>>)
        tree  == IF lexed.ok THEN Group(lexed.toks, 1, 0, sign) ELSE Fail
    IN  IF tree.ok /\ tree.next = Len(lexed.toks) + 1
        THEN [ok |-> TRUE, body |-> tree.node]
        ELSE [ok |-> FALSE]

\* C4 as stated: safe_eval computes the value of the grouping in which a
\* sign binds tighter than every binary operator, ** included, ** groups to
\* the right, and * / % and + - group to the left.
C4_SignBindsTightest ==
    pc = "done" /\ Grouped(arg, 9).ok =>
        ret = Guarded(eval_node(Grouped(arg, 9).body))

\* C4: safe_eval computes the value of the grouping in which ** binds tighter
\* than a sign on its left, a sign in an exponent belongs to the exponent, a
\* sign binds tighter than * / % and + -, ** groups to the right, and * / %
\* and + - group to the left.
C4_PowerBindsTighterThanSign ==
    pc = "done" /\ Grouped(arg, 5).ok =>
        ret = Guarded(eval_node(Grouped(arg, 5).body))

\* the negated square: -2^2 is -(2^2)
C4_NegatedSquare ==
    /\ pc = "done"
    /\ arg = <<"-", "2", "^", "2">>
    /\ ret = Return(Fin(-4, 1), None)

\* C5: a Pow node never makes the evaluation fail: a well-formed expression
\* that meets no zero divisor gets a value, and a value that is not finite is
\* formatted as "Error".
C5_PowNeverFails ==
    pc = "done" /\ WellFormed(arg) /\ FirstFault(Tree(arg).body) \in {"none", "Other"} =>
        /\ ret.tag = "return"
        /\ IsNone(ret.err)
        /\ ~IsFinite(ret.value) => format_result(ret.value) = ErrorText

(***************************************************************************)
(* Properties of display_expr, internal_expr and format_result.            *)
(***************************************************************************)
\* C6 as stated: every display string comes back from internal notation
\* unchanged.
C6_RoundTripOfEveryString == pc = "done" => ret = arg

\* a multiplication sign directly before a multiplication sign or a caret
TimesBeforeTimesOrPower(s) ==
    \E i \in 1..(Len(s) - 1) : s[i] = "×" /\ s[i + 1] \in {"×", "^"}

\* C6: a display string in which no multiplication sign directly precedes a
\* multiplication sign or a caret comes back from internal notation unchanged.
C6_RoundTripWithoutTimesPair ==
    pc = "done" /\ ~TimesBeforeTimesOrPower(arg) => ret = arg

\* adjacent operators that come back unchanged
C6_AdjacentOperatorsKept ==
    /\ pc = "done"
    /\ \E i \in 1..(Len(arg) - 1) : arg[i] = "^" /\ arg[i + 1] = "×"
    /\ \E i \in 1..(Len(arg) - 1) : arg[i] = "÷" /\ arg[i + 1] = "÷"
    /\ ret = arg

\* C7: formatting a finite value, reading the string back with float() and
\* formatting again gives the first string.
C7_FormatIsStable == pc = "done" => ret[2] = ret[1]

(***************************************************************************)
(* Properties of the session.                                              *)
(***************************************************************************)
Evaluated(outcome) == called'.op = "_evaluate" /\ called'.outcome = outcome

\* C8: an evaluation of a non-blank expression that safe_eval rejects leaves
\* expression, last_ans, history_list and the history label as they were; the
\* sub-display takes the error message.
C8_RejectedEvaluationKeepsState ==
    [][Evaluated("error") =>
          /\ expression' = expression
          /\ last_ans' = last_ans
          /\ history_list' = history_list
          /\ history_label' = history_label
          /\ sub_display_text'
                = <<"Error: ", safe_eval(internal_expr(expression)).err.text>>
          /\ sub_display' = sub_display_text']_vars

\* a rejected evaluation with an answer and a history to lose
C8_RejectedWithHistory ==
    /\ called.op = "_evaluate"
    /\ called.outcome = "error"
    /\ expression # <<>>
    /\ ~IsNone(last_ans)
    /\ history_list # <<>>

\* C9: history_list never holds more than six entries; a successful
\* evaluation puts (display_expr(expression), result_str) first, moves every
\* entry one place down and drops a seventh; nothing else changes the list.
C9_HistoryIsBoundedAndOrdered ==
    [][/\ Len(history_list') <= 6
       /\ Evaluated("ok") =>
             /\ Len(history_list')
                   = IF Len(history_list) < 6 THEN Len(history_list) + 1 ELSE 6
             /\ history_list'[1]
                   = <<display_expr(expression),
                       format_result(safe_eval(internal_expr(expression)).value)>>
             /\ \A k \in 2..Len(history_list') : history_list'[k] = history_list[k - 1]
       /\ ~Evaluated("ok") => history_list' = history_list]_vars

\* a successful evaluation on a full history, whose entries differ
C9_SeventhEntryDropped ==
    /\ called.op = "_evaluate"
    /\ called.outcome = "ok"
    /\ called.full
    /\ Len(history_list) = 6
    /\ history_list[1] # history_list[2]

\* C10: last_ans is None at first and then the value of the latest successful
\* evaluation, which nothing else changes; ANS appends format_result(last_ans)
\* to the expression, and nothing when last_ans is None.
C10_LastAnswer ==
    /\ IsNone(last_ans)
    /\ [][/\ Evaluated("ok")
                => last_ans' = safe_eval(internal_expr(expression)).value
          /\ ~Evaluated("ok") => last_ans' = last_ans
          /\ called'.op = "_insert_ans"
                => expression' = IF IsNone(last_ans) THEN expression
                                 ELSE expression \o format_result(last_ans)]_vars

\* ANS pressed after an evaluation and a clear
C10_AnswerInsertedAfterClear ==
    /\ called.op = "_insert_ans"
    /\ ~IsNone(last_ans)
    /\ expression = format_result(last_ans)
    /\ history_list # <<>>

====
